---- MODULE Spec2Model ----
(***************************************************************************)
(* lico: a row engine (lico.core.apply_to_each) applying an Operation to   *)
(* every row of a table, and the Task (lico.io.Task) that runs the engine  *)
(* over an input table and writes the result to an output csv file.        *)
(*                                                                         *)
(* A row is a python dict; here it is a record [id, data] where data is    *)
(* the dict (a function from column names to text) and id is the position  *)
(* the row had in the table it came from.  id is bookkeeping of this       *)
(* development only: no operator that models code reads it.                *)
(***************************************************************************)
EXTENDS Integers, Sequences, FiniteSets, TLC

VARIABLES
    input_file,             \* Task.input_file: [content, column_order]
    operation,              \* Task.operation / the engine's operation
    disk,                   \* the file at Task.output_path
    pc,                     \* position of run() / of the generator
    output,                 \* run(): output.content
    statistics,             \* the RunStatistics of the current run
    row_iter,               \* run(): row_iter, [rows_left, rows_returned]
    input_row,              \* apply_to_each: the row being processed
    exc,                    \* the exception in flight, NoExc if none
    input_rows,             \* apply_to_each called directly: its table
    count,                  \* apply_to_each: rows drawn from input_rows
    results,                \* the rows the consumer got from the generator
    skip_failing_rows,      \* apply_to_each: flag
    skip_previous_results,  \* apply_to_each: flag
    input0,                 \* history: Task.input_file.content at construction
    runs,                   \* history: run() calls started on this Task
    exit,                   \* history: how the last run() left, [how, exc]
    saves,                  \* history: output.save() calls of the current run
    written,                \* history: output.content at the last save
    apply_calls,            \* history: the apply() calls of the current run
    run_rows,               \* history: the rows run() handed to RowIterator
    disk_at_start,          \* history: the output file when run() started
    previous,               \* history: [exit, written] of the run() before
    table,                  \* a Table used directly: [content, column_order]
    other,                  \* the Table given to table.concat
    table0,                 \* history: table as it was constructed
    self_fieldnames,        \* what table.get_fieldnames() returned last
    other_fieldnames,       \* what other.get_fieldnames() returned last
    loaded,                 \* the CSVFile loaded from the file saved
    sliced,                 \* the Table that table[start:stop] returned
    item,                   \* the slice given to Table.__getitem__, [start, stop]
    processed,              \* the Table that process() returned
    input_list              \* legacy Task.all_results: input_list

vars == <<input_file, operation, disk, pc, output, statistics, row_iter,
          input_row, exc, input_rows, count, results, skip_failing_rows,
          skip_previous_results, input0, runs, exit, saves, written,
          apply_calls, run_rows, disk_at_start, previous, table, other,
          table0, self_fieldnames, other_fieldnames, loaded, sliced, item,
          processed, input_list>>

taskVars == <<input_file, disk, output, row_iter, input0, runs, exit, saves,
              written, run_rows, disk_at_start, previous>>

engineVars == <<input_rows, count, results>>

flagVars == <<skip_failing_rows, skip_previous_results>>

tableVars == <<table, other, table0, self_fieldnames, other_fieldnames, loaded,
               sliced, item, processed, input_list>>

\* Bounds of the model
MaxRows == 3
MaxRuns == 2

\* ------------------------------------------------------------------------
\* Rows, tables, exceptions

Cols == {"patient", "concatenated"}

EmptyDict == [c \in {} |-> ""]

\* The dicts input rows are drawn from: a plain row, a row that already
\* carries a result, and a sparse row without the "patient" column
RowData ==
    { ("patient" :> "p1"),
      ("patient" :> "p1") @@ ("concatenated" :> "p1d1"),
      ("concatenated" :> "") }

\* The dicts apply() may return
Partials ==
    { EmptyDict,
      ("concatenated" :> "new"),
      ("patient" :> "p2") }

ColumnOrders == { <<>>, <<"patient">> }

Tables(n) ==
    { [i \in 1..n |-> [id |-> i, data |-> f[i]]] : f \in [1..n -> RowData] }

InputTables == UNION { Tables(n) : n \in 0..MaxRows }

NoRow == [id |-> 0, data |-> EmptyDict]

NoExc == [type |-> "None", msg |-> "", col |-> ""]

RowProcessError(msg, col) == [type |-> "RowProcessError", msg |-> msg, col |-> col]

KeyError(col) == [type |-> "KeyError", msg |-> "", col |-> col]

ValueError == [type |-> "ValueError", msg |-> "Horrible error", col |-> ""]

\* class MissingInputColumnError(RowProcessError)
MissingInputColumnError(col) ==
    [type |-> "MissingInputColumnError", msg |-> "", col |-> col]

\* except RowProcessError: the class itself or its subclass
IsRowProcessError(e) == e.type \in {"RowProcessError", "MissingInputColumnError"}

Range(s) == { s[i] : i \in 1..Len(s) }

Last(s) == s[Len(s)]

Front(s) == SubSeq(s, 1, Len(s) - 1)

\* ------------------------------------------------------------------------
\* lico.core: Table

\* All orders in which the elements of set S can be listed
Orderings(S) ==
    { s \in [1..Cardinality(S) -> S] : \A i, j \in 1..Cardinality(S) : s[i] = s[j] => i = j }

\* The extra columns are forgotten
get_fieldnames_without_extra(content, column_order) == { column_order }

\* The remembered columns are not taken out of the extra ones
get_fieldnames_extra_not_reduced(content, column_order) ==
    LET from_content == UNION { DOMAIN content[i].data : i \in 1..Len(content) }
    IN  { column_order \o e : e \in Orderings(from_content) }

\* Table.get_fieldnames: column_order + list(extra), where extra is a python
\* set of str; the order in which list() walks it depends on the hash seed
\* of the process, so every order is a possible result
get_fieldnames(content, column_order) ==
    LET from_content == UNION { DOMAIN content[i].data : i \in 1..Len(content) }
        extra == from_content \ Range(column_order)
    IN  { column_order \o e : e \in Orderings(extra) }

\* Table.__init__: an absent or empty column_order is the empty list
Table(content, column_order) == [content |-> content, column_order |-> column_order]

NoTable == Table(<<>>, <<>>)

NoItem == [start |-> 0, stop |-> 0]

\* The row at stop is taken as well
slice_inclusive(content, start, stop) ==
    LET last == IF stop + 1 < Len(content) THEN stop + 1 ELSE Len(content)
    IN  IF start + 1 > last THEN <<>> ELSE SubSeq(content, start + 1, last)

\* content[start:stop] of a python list, for start >= 0 and stop >= 0: the
\* elements at the 0-based places start..stop-1 that the list has, as a new
\* list
slice(content, start, stop) ==
    LET last == IF stop < Len(content) THEN stop ELSE Len(content)
    IN  IF start + 1 > last THEN <<>> ELSE SubSeq(content, start + 1, last)

\* Table.__getitem__ with a slice: a new Table of the rows sliced, with the
\* column_order of this one
getitem(self, start, stop) ==
    Table(slice(self.content, start, stop), self.column_order)

\* ------------------------------------------------------------------------
\* lico.io: CSVFile

NoFile == [exists |-> FALSE, header |-> <<>>, lines |-> <<>>]

\* CSVFile.save_to_handle with the header already computed: DictWriter
\* writes the header and one line per row, "" for a column the row lacks
save_to_handle(content, fieldnames) ==
    [exists |-> TRUE,
     header |-> fieldnames,
     lines  |-> [i \in 1..Len(content) |->
                   [j \in 1..Len(fieldnames) |->
                      IF fieldnames[j] \in DOMAIN content[i].data
                      THEN content[i].data[fieldnames[j]]
                      ELSE ""]]]

\* The files CSVFile.save can leave for a table
save(content, column_order) ==
    { save_to_handle(content, f) : f \in get_fieldnames(content, column_order) }

\* A text value of the model that holds a carriage return, and what it
\* reads as
TextWithCR == "d<CR>1"
TextWithLF == "d<LF>1"

\* open(path) without newline='': on reading, a carriage return inside the
\* text becomes a line feed, also inside a quoted csv field
universal_newlines(text) == IF text = TextWithCR THEN TextWithLF ELSE text

\* CSVFile.init_from_path: DictReader gives one dict per line, keyed by the
\* header; a file with an empty header has only blank lines, which
\* DictReader skips
init_from_path(file) ==
    LET h == file.header
        kept == IF Len(h) = 0 THEN <<>> ELSE file.lines
    IN  [content |-> [i \in 1..Len(kept) |->
                        [id |-> i,
                         data |-> [c \in Range(h) |->
                                     universal_newlines(
                                       kept[i][CHOOSE j \in 1..Len(h) :
                                                 h[j] = c /\ \A k \in (j+1)..Len(h) : h[k] # c])]]],
         column_order |-> h]

\* ------------------------------------------------------------------------
\* lico.core: Operation

Operations == {"Operation", "Concatenate"}

\* Operation.has_previous_result: False in the base class;
\* Concatenate.has_previous_result: bool(row.get("concatenated", None))
has_previous_result(op, row) ==
    IF op = "Operation"
    THEN FALSE
    ELSE "concatenated" \in DOMAIN row.data /\ row.data["concatenated"] # ""

\* What one call of a user's apply(row) can do: return a partial row, raise
\* RowProcessError or its subclass, read a column the row lacks (KeyError),
\* or fail in any other way (FetchResult with a failing server_func)
ApplyOutcomes(row) ==
    { [result |-> p, exc |-> NoExc] : p \in Partials }
    \cup { [result |-> EmptyDict, exc |-> RowProcessError("bad row", "")] }
    \cup { [result |-> EmptyDict, exc |-> MissingInputColumnError("patient")] }
    \cup { [result |-> EmptyDict, exc |-> KeyError(c)] : c \in Cols \ DOMAIN row.data }
    \cup { [result |-> EmptyDict, exc |-> ValueError] }

\* The KeyError is not converted
apply_safe_unconverted(outcome) == outcome

\* Operation.apply_safe: KeyError from apply becomes RowProcessError
\* 'Missing column <key>', anything else passes
apply_safe(outcome) ==
    IF outcome.exc.type = "KeyError"
    THEN [outcome EXCEPT !.exc = RowProcessError("Missing column", outcome.exc.col)]
    ELSE outcome

\* ------------------------------------------------------------------------
\* lico.core: RunStatistics and apply_to_each

RunStatistics == [completed |-> 0, skipped |-> 0, failed |-> 0, errors |-> <<>>]

Total(st) == st.completed + st.skipped + st.failed

\* {**result, **input_row}: the input row wins
Merge_input_wins(row, result) ==
    [id |-> row.id,
     data |-> [c \in DOMAIN row.data \cup DOMAIN result |->
                 IF c \in DOMAIN row.data THEN row.data[c] ELSE result[c]]]

\* {**input_row, **result}
Merge(row, result) ==
    [id |-> row.id,
     data |-> [c \in DOMAIN row.data \cup DOMAIN result |->
                 IF c \in DOMAIN result THEN result[c] ELSE row.data[c]]]

\* The flag is read the wrong way round
should_skip_flag_negated(op, skip_previous, row) ==
    ~skip_previous /\ has_previous_result(op, row)

\* apply_to_each.should_skip
should_skip(op, skip_previous, row) ==
    skip_previous /\ has_previous_result(op, row)

\* apply_to_each, the row has a previous result: count it, yield it as it is
skipped_row(st, row) ==
    [yielded |-> TRUE, row |-> row, exc |-> NoExc, called |-> FALSE,
     statistics |-> [st EXCEPT !.skipped = @ + 1]]

\* apply_to_each, apply_safe returned result: count, yield the merged row
completed_row(st, row, result) ==
    [yielded |-> TRUE, row |-> Merge(row, result), exc |-> NoExc, called |-> TRUE,
     statistics |-> [st EXCEPT !.completed = @ + 1]]

\* The failed row is counted and recorded, but never yielded
failed_row_not_yielded(skip_failing, st, row, e) ==
    IF skip_failing
    THEN [yielded |-> FALSE, row |-> NoRow, exc |-> NoExc, called |-> TRUE,
          statistics |-> [st EXCEPT !.failed = @ + 1, !.errors = Append(@, e)]]
    ELSE [yielded |-> FALSE, row |-> NoRow, exc |-> e, called |-> TRUE,
          statistics |-> st]

\* The failed row is counted as skipped
failed_row_as_skipped(skip_failing, st, row, e) ==
    IF skip_failing
    THEN [yielded |-> TRUE, row |-> row, exc |-> NoExc, called |-> TRUE,
          statistics |-> [st EXCEPT !.skipped = @ + 1, !.errors = Append(@, e)]]
    ELSE [yielded |-> FALSE, row |-> NoRow, exc |-> e, called |-> TRUE,
          statistics |-> st]

\* The failure is counted and recorded before skip_failing_rows is looked at
failed_row_counted_first(skip_failing, st, row, e) ==
    LET counted == [st EXCEPT !.failed = @ + 1, !.errors = Append(@, e)]
    IN  IF skip_failing
        THEN [yielded |-> TRUE, row |-> row, exc |-> NoExc, called |-> TRUE,
              statistics |-> counted]
        ELSE [yielded |-> FALSE, row |-> NoRow, exc |-> e, called |-> TRUE,
              statistics |-> counted]

\* The failure is counted, but the error is not kept
failed_row_not_recorded(skip_failing, st, row, e) ==
    IF skip_failing
    THEN [yielded |-> TRUE, row |-> row, exc |-> NoExc, called |-> TRUE,
          statistics |-> [st EXCEPT !.failed = @ + 1]]
    ELSE [yielded |-> FALSE, row |-> NoRow, exc |-> e, called |-> TRUE,
          statistics |-> st]

\* apply_to_each, apply_safe raised RowProcessError e: with skip_failing_rows
\* count and record it and yield the input row, else raise e
failed_row(skip_failing, st, row, e) ==
    IF skip_failing
    THEN [yielded |-> TRUE, row |-> row, exc |-> NoExc, called |-> TRUE,
          statistics |-> [st EXCEPT !.failed = @ + 1, !.errors = Append(@, e)]]
    ELSE [yielded |-> FALSE, row |-> NoRow, exc |-> e, called |-> TRUE,
          statistics |-> st]

\* The except clause catches every exception, not only RowProcessError
loop_body_catches_all(op, skip_failing, skip_previous, st, row, outcome) ==
    IF should_skip(op, skip_previous, row)
    THEN skipped_row(st, row)
    ELSE LET r == apply_safe(outcome)
         IN  IF r.exc = NoExc
             THEN completed_row(st, row, r.result)
             ELSE failed_row(skip_failing, st, row, r.exc)

\* apply_to_each, the body of the loop for one input row, where outcome is
\* what apply(row) does if it is called.  Gives the row yielded (if
\* yielded), the exception leaving the generator (exc, NoExc if none), the
\* statistics afterwards and whether apply was called.  An exception that
\* is not a RowProcessError is not caught
loop_body(op, skip_failing, skip_previous, st, row, outcome) ==
    IF should_skip(op, skip_previous, row)
    THEN skipped_row(st, row)
    ELSE LET r == apply_safe(outcome)
         IN  IF r.exc = NoExc
             THEN completed_row(st, row, r.result)
             ELSE IF IsRowProcessError(r.exc)
             THEN failed_row(skip_failing, st, row, r.exc)
             ELSE [yielded |-> FALSE, row |-> NoRow, exc |-> r.exc,
                   called |-> TRUE, statistics |-> st]

\* No Table is used directly
NoTables ==
    /\ table = [content |-> <<>>, column_order |-> <<>>]
    /\ other = [content |-> <<>>, column_order |-> <<>>]
    /\ table0 = table
    /\ self_fieldnames = <<>>
    /\ other_fieldnames = <<>>
    /\ loaded = [content |-> <<>>, column_order |-> <<>>]
    /\ sliced = NoTable
    /\ item = NoItem
    /\ processed = NoTable
    /\ input_list = NoTable

\* ------------------------------------------------------------------------
\* lico.io: RowIterator

\* RowIterator.__init__: rows_left is the list it is given, not a copy
RowIterator(rows) == [rows_left |-> rows, rows_returned |-> <<>>]

\* The row handed out is not remembered
RowIteratorNext_forgets(it) ==
    LET row == Last(it.rows_left)
    IN  [row |-> row,
         it  |-> [rows_left |-> Front(it.rows_left),
                  rows_returned |-> it.rows_returned]]

\* RowIterator.__next__ when rows_left is not empty: list.pop() takes the
\* last element of rows_left
RowIteratorNext(it) ==
    LET row == Last(it.rows_left)
    IN  [row |-> row,
         it  |-> [rows_left |-> Front(it.rows_left),
                  rows_returned |-> Append(it.rows_returned, row)]]

\* ------------------------------------------------------------------------
\* lico.io: Task

NoExit == [how |-> "none", exc |-> NoExc]

\* A file a run of another Task object left at the output path earlier
PriorFile ==
    save_to_handle(<<[id |-> 1, data |-> ("patient" :> "p0") @@ ("concatenated" :> "p0d0")]>>,
                   <<"patient", "concatenated">>)

\* Task.__init__ with a CSVFile as input_file
Init ==
    /\ input_file \in { [content |-> t, column_order |-> co] :
                          t \in InputTables, co \in ColumnOrders }
    /\ operation \in Operations
    /\ disk \in {NoFile, PriorFile}
    /\ pc = "idle"
    /\ output = <<>>
    /\ statistics = RunStatistics
    /\ row_iter = RowIterator(<<>>)
    /\ input_row = NoRow
    /\ exc = NoExc
    /\ input_rows = <<>>
    /\ count = 0
    /\ results = <<>>
    /\ skip_failing_rows = TRUE
    /\ skip_previous_results = TRUE
    /\ input0 = input_file.content
    /\ runs = 0
    /\ exit = NoExit
    /\ saves = 0
    /\ written = <<>>
    /\ apply_calls = <<>>
    /\ run_rows = <<>>
    /\ disk_at_start = NoFile
    /\ previous = [exit |-> NoExit, written |-> <<>>]
    /\ NoTables

\* Task.run up to the call of apply_to_each: a new output table, new
\* statistics, and a RowIterator over the list input_file.content
RunStart ==
    /\ pc = "idle"
    /\ runs < MaxRuns
    /\ output' = <<>>
    /\ statistics' = RunStatistics
    /\ row_iter' = RowIterator(input_file.content)
    /\ pc' = "running"
    /\ runs' = runs + 1
    /\ exit' = NoExit
    /\ saves' = 0
    /\ apply_calls' = <<>>
    /\ run_rows' = input_file.content
    /\ disk_at_start' = disk
    /\ previous' = [exit |-> exit, written |-> written]
    /\ input_row' = NoRow
    /\ exc' = NoExc
    /\ UNCHANGED <<input_file, operation, disk, written, input0>>
    /\ UNCHANGED <<engineVars, flagVars, tableVars>>

\* The for loop of apply_to_each asks row_iter for the next row.  rows_left
\* is the list object input_file.content, so the pop shortens that too
RunNext ==
    /\ pc = "running"
    /\ row_iter.rows_left # <<>>
    /\ LET n == RowIteratorNext(row_iter)
       IN  /\ row_iter' = n.it
           /\ input_row' = n.row
           /\ input_file' = [input_file EXCEPT !.content = n.it.rows_left]
    /\ pc' = "inflight"
    /\ UNCHANGED <<operation, disk, output, statistics, exc, input0, runs, exit,
                   saves, written, apply_calls, run_rows, disk_at_start, previous>>
    /\ UNCHANGED <<engineVars, flagVars, tableVars>>

\* run() calls the engine without skip_failing_rows
RunProcessNoSkipFailing ==
    /\ pc = "inflight"
    /\ \E outcome \in ApplyOutcomes(input_row) :
         LET r == loop_body(operation, FALSE, TRUE, statistics, input_row, outcome)
         IN  /\ statistics' = r.statistics
             /\ apply_calls' = IF r.called
                               THEN Append(apply_calls, [row |-> input_row, outcome |-> outcome])
                               ELSE apply_calls
             /\ output' = IF r.yielded THEN Append(output, r.row) ELSE output
             /\ exc' = r.exc
             /\ pc' = IF r.exc = NoExc THEN "running" ELSE "except"
    /\ UNCHANGED <<input_file, operation, disk, row_iter, input_row, input0, runs,
                   exit, saves, written, run_rows, disk_at_start, previous>>
    /\ UNCHANGED <<engineVars, flagVars, tableVars>>

\* apply_to_each processes the row it drew; run() appends what it yields to
\* output.content, or the exception reaches the except clause of run()
RunProcess ==
    /\ pc = "inflight"
    /\ \E outcome \in ApplyOutcomes(input_row) :
         LET r == loop_body(operation, TRUE, TRUE, statistics, input_row, outcome)
         IN  /\ statistics' = r.statistics
             /\ apply_calls' = IF r.called
                               THEN Append(apply_calls, [row |-> input_row, outcome |-> outcome])
                               ELSE apply_calls
             /\ output' = IF r.yielded THEN Append(output, r.row) ELSE output
             /\ exc' = r.exc
             /\ pc' = IF r.exc = NoExc THEN "running" ELSE "except"
    /\ UNCHANGED <<input_file, operation, disk, row_iter, input_row, input0, runs,
                   exit, saves, written, run_rows, disk_at_start, previous>>
    /\ UNCHANGED <<engineVars, flagVars, tableVars>>

\* The row in flight is left out
unprocessed_without_inflight(it) == it.rows_left

\* The rows run() adds to the output in its except clause
unprocessed(it) == <<Last(it.rows_returned)>> \o it.rows_left

\* The except clause raises again without having saved
RunExceptNoSave ==
    /\ pc = "except"
    /\ output' = output \o unprocessed(row_iter)
    /\ statistics' = [statistics EXCEPT
                        !.skipped = @ + Len(unprocessed(row_iter)) - 1,
                        !.failed = @ + 1,
                        !.errors = Append(@, exc)]
    /\ exit' = [how |-> "raised", exc |-> exc]
    /\ exc' = NoExc
    /\ pc' = "idle"
    /\ UNCHANGED <<input_file, operation, disk, row_iter, input_row, input0, runs,
                   saves, written, apply_calls, run_rows, disk_at_start, previous>>
    /\ UNCHANGED <<engineVars, flagVars, tableVars>>

\* The row in flight is counted as skipped and as failed
RunExceptInflightSkipped ==
    /\ pc = "except"
    /\ LET content == output \o unprocessed(row_iter)
       IN  /\ output' = content
           /\ statistics' = [statistics EXCEPT
                               !.skipped = @ + Len(unprocessed(row_iter)),
                               !.failed = @ + 1,
                               !.errors = Append(@, exc)]
           /\ disk' \in save(content, input_file.column_order)
           /\ written' = content
    /\ saves' = saves + 1
    /\ exit' = [how |-> "raised", exc |-> exc]
    /\ exc' = NoExc
    /\ pc' = "idle"
    /\ UNCHANGED <<input_file, operation, row_iter, input_row, input0, runs,
                   apply_calls, run_rows, disk_at_start, previous>>
    /\ UNCHANGED <<engineVars, flagVars, tableVars>>

\* Task.run, the except clause: add the unprocessed rows, count them, save
\* and raise the exception again
RunExcept ==
    /\ pc = "except"
    /\ LET content == output \o unprocessed(row_iter)
       IN  /\ output' = content
           /\ statistics' = [statistics EXCEPT
                               !.skipped = @ + Len(unprocessed(row_iter)) - 1,
                               !.failed = @ + 1,
                               !.errors = Append(@, exc)]
           /\ disk' \in save(content, input_file.column_order)
           /\ written' = content
    /\ saves' = saves + 1
    /\ exit' = [how |-> "raised", exc |-> exc]
    /\ exc' = NoExc
    /\ pc' = "idle"
    /\ UNCHANGED <<input_file, operation, row_iter, input_row, input0, runs,
                   apply_calls, run_rows, disk_at_start, previous>>
    /\ UNCHANGED <<engineVars, flagVars, tableVars>>

\* run() returns the statistics without having saved
RunFinishNoSave ==
    /\ pc = "running"
    /\ row_iter.rows_left = <<>>
    /\ exit' = [how |-> "returned", exc |-> NoExc]
    /\ pc' = "idle"
    /\ UNCHANGED <<input_file, operation, output, statistics, row_iter, input_row,
                   exc, input0, runs, apply_calls, run_rows, disk_at_start, previous,
                   disk, written, saves>>
    /\ UNCHANGED <<engineVars, flagVars, tableVars>>

\* Task.run after the loop ended without exception: save and return the
\* statistics
RunFinish ==
    /\ pc = "running"
    /\ row_iter.rows_left = <<>>
    /\ disk' \in save(output, input_file.column_order)
    /\ written' = output
    /\ saves' = saves + 1
    /\ exit' = [how |-> "returned", exc |-> NoExc]
    /\ pc' = "idle"
    /\ UNCHANGED <<input_file, operation, output, statistics, row_iter, input_row,
                   exc, input0, runs, apply_calls, run_rows, disk_at_start, previous>>
    /\ UNCHANGED <<engineVars, flagVars, tableVars>>

Next == RunStart \/ RunNext \/ RunProcess \/ RunExcept \/ RunFinish

Spec == Init /\ [][Next]_vars

\* ------------------------------------------------------------------------
\* lico.core: apply_to_each called on a table, the consumer taking every row
\* the generator yields (list(apply_to_each(...)), as process() does)

InitEngine ==
    /\ input_rows \in InputTables
    /\ operation \in Operations
    /\ skip_failing_rows \in BOOLEAN
    /\ skip_previous_results \in BOOLEAN
    /\ count = 0
    /\ results = <<>>
    /\ statistics = RunStatistics
    /\ pc = "running"
    /\ input_row = NoRow
    /\ exc = NoExc
    /\ apply_calls = <<>>
    /\ input_file = [content |-> <<>>, column_order |-> <<>>]
    /\ disk = NoFile
    /\ output = <<>>
    /\ row_iter = RowIterator(<<>>)
    /\ input0 = <<>>
    /\ runs = 0
    /\ exit = NoExit
    /\ saves = 0
    /\ written = <<>>
    /\ run_rows = <<>>
    /\ disk_at_start = NoFile
    /\ previous = [exit |-> NoExit, written |-> <<>>]
    /\ NoTables

\* A row is drawn and dropped before the row that is processed
EngNextReadsAhead ==
    /\ pc = "running"
    /\ count < Len(input_rows)
    /\ count' = IF count + 2 <= Len(input_rows) THEN count + 2 ELSE count + 1
    /\ input_row' = input_rows[count']
    /\ pc' = "inflight"
    /\ UNCHANGED <<operation, statistics, exc, results, input_rows, apply_calls>>
    /\ UNCHANGED <<taskVars, flagVars, tableVars>>

\* for count, input_row in enumerate(input_rows): the next row of the table
EngNext ==
    /\ pc = "running"
    /\ count < Len(input_rows)
    /\ input_row' = input_rows[count + 1]
    /\ count' = count + 1
    /\ pc' = "inflight"
    /\ UNCHANGED <<operation, statistics, exc, results, input_rows, apply_calls>>
    /\ UNCHANGED <<taskVars, flagVars, tableVars>>

\* The row of the table is updated in place with what apply returned
EngProcessInPlace ==
    /\ pc = "inflight"
    /\ \E outcome \in ApplyOutcomes(input_row) :
         LET r == loop_body(operation, skip_failing_rows, skip_previous_results,
                            statistics, input_row, outcome)
         IN  /\ statistics' = r.statistics
             /\ apply_calls' = IF r.called
                               THEN Append(apply_calls, [row |-> input_row, outcome |-> outcome])
                               ELSE apply_calls
             /\ results' = IF r.yielded THEN Append(results, r.row) ELSE results
             /\ input_rows' = IF r.yielded
                              THEN [input_rows EXCEPT ![count] = r.row]
                              ELSE input_rows
             /\ exc' = r.exc
             /\ pc' = IF r.exc = NoExc THEN "running" ELSE "raised"
    /\ UNCHANGED <<operation, input_row, count>>
    /\ UNCHANGED <<taskVars, flagVars, tableVars>>

\* The body of the loop for the row drawn: the row yielded goes to the
\* consumer, an exception ends the generator
EngProcess ==
    /\ pc = "inflight"
    /\ \E outcome \in ApplyOutcomes(input_row) :
         LET r == loop_body(operation, skip_failing_rows, skip_previous_results,
                            statistics, input_row, outcome)
         IN  /\ statistics' = r.statistics
             /\ apply_calls' = IF r.called
                               THEN Append(apply_calls, [row |-> input_row, outcome |-> outcome])
                               ELSE apply_calls
             /\ results' = IF r.yielded THEN Append(results, r.row) ELSE results
             /\ exc' = r.exc
             /\ pc' = IF r.exc = NoExc THEN "running" ELSE "raised"
    /\ UNCHANGED <<operation, input_row, input_rows, count>>
    /\ UNCHANGED <<taskVars, flagVars, tableVars>>

\* The table has no more rows: the generator returns
EngExhausted ==
    /\ pc = "running"
    /\ count = Len(input_rows)
    /\ pc' = "done"
    /\ UNCHANGED <<operation, statistics, input_row, exc, results, input_rows,
                   count, apply_calls>>
    /\ UNCHANGED <<taskVars, flagVars, tableVars>>

NextEngine == EngNext \/ EngProcess \/ EngExhausted

SpecEngine == InitEngine /\ [][NextEngine]_vars

\* ------------------------------------------------------------------------
\* lico.core: apply_to_each with a consumer that may stop before the end

\* The consumer closes the generator, which is suspended at a yield or was
\* never started: GeneratorExit is raised at the yield, which except
\* RowProcessError does not catch
EngClose ==
    /\ pc = "running"
    /\ pc' = "closed"
    /\ UNCHANGED <<operation, statistics, input_row, exc, results, input_rows,
                   count, apply_calls>>
    /\ UNCHANGED <<taskVars, flagVars, tableVars>>

NextLazy == EngNext \/ EngProcess \/ EngExhausted \/ EngClose

SpecLazy == InitEngine /\ [][NextLazy]_vars

\* ------------------------------------------------------------------------
\* lico.core: process(table, operation, skip_failing_rows,
\* skip_previous_results)

\* The call of process: apply_to_each gets the Table, whose iterator is
\* that of its list of rows
InitProcess ==
    /\ table \in { Table(t, co) : t \in InputTables, co \in ColumnOrders }
    /\ table0 = table
    /\ input_rows = table.content
    /\ operation \in Operations
    /\ skip_failing_rows \in BOOLEAN
    /\ skip_previous_results \in BOOLEAN
    /\ count = 0
    /\ results = <<>>
    /\ statistics = RunStatistics
    /\ pc = "running"
    /\ input_row = NoRow
    /\ exc = NoExc
    /\ apply_calls = <<>>
    /\ processed = NoTable
    /\ input_file = [content |-> <<>>, column_order |-> <<>>]
    /\ disk = NoFile
    /\ output = <<>>
    /\ row_iter = RowIterator(<<>>)
    /\ input0 = <<>>
    /\ runs = 0
    /\ exit = NoExit
    /\ saves = 0
    /\ written = <<>>
    /\ run_rows = <<>>
    /\ disk_at_start = NoFile
    /\ previous = [exit |-> NoExit, written |-> <<>>]
    /\ other = NoTable
    /\ self_fieldnames = <<>>
    /\ other_fieldnames = <<>>
    /\ loaded = NoTable
    /\ sliced = NoTable
    /\ item = NoItem
    /\ input_list = NoTable

\* list(apply_to_each(...)) is complete: process returns a new Table of the
\* rows it got, with the column_order of the table given
ProcessReturn ==
    /\ pc = "done"
    /\ processed' = Table(results, table.column_order)
    /\ pc' = "returned"
    /\ UNCHANGED <<operation, statistics, input_row, exc, results, input_rows,
                   count, apply_calls>>
    /\ UNCHANGED <<table, other, table0, self_fieldnames, other_fieldnames, loaded,
                   sliced, item, input_list>>
    /\ UNCHANGED <<taskVars, flagVars>>

NextProcess == EngNext \/ EngProcess \/ EngExhausted \/ ProcessReturn

SpecProcess == InitProcess /\ [][NextProcess]_vars

\* ------------------------------------------------------------------------
\* lico.core: Table and lico.io: CSVFile used directly

MaxTableRows == 2

\* The dicts the rows of these tables are drawn from: two rows with patient
\* and date, one of them with a carriage return in a value, a row with
\* another column, and a sparse row
TableRowData ==
    { ("patient" :> "p1") @@ ("date" :> "d1"),
      ("patient" :> "p2") @@ ("date" :> TextWithCR),
      ("patient" :> "p1") @@ ("concatenated" :> "p1d1"),
      ("date" :> "") }

\* The keys of each of these dicts, in the order the dict lists them
KeyOrder == <<"patient", "date", "concatenated">>

TableColumnOrders ==
    { <<>>, <<"patient", "date">>, <<"patient", "concatenated">> }

TablesOf(n) ==
    { [i \in 1..n |-> [id |-> i, data |-> f[i]]] : f \in [1..n -> TableRowData] }

DirectTables ==
    { [content |-> t, column_order |-> co] :
        t \in UNION { TablesOf(n) : n \in 0..MaxTableRows },
        co \in TableColumnOrders }

\* Every name is kept, also when it occurs twice
unique_keeps_all(names) == names

\* Table.concat: the OrderedDict keyed by the names, listed: each name once,
\* at the place of its first occurrence
RECURSIVE unique(_)
unique(names) ==
    IF names = <<>>
    THEN <<>>
    ELSE LET u == unique(Front(names))
         IN  IF Last(names) \in Range(u) THEN u ELSE Append(u, Last(names))

\* Table.concat, given what the two get_fieldnames calls returned
concat(self, oth, self_names, other_names) ==
    [content |-> self.content \o oth.content,
     column_order |-> unique(self_names \o other_names)]

InitTable ==
    /\ table \in DirectTables
    /\ other \in DirectTables
    /\ table0 = table
    /\ self_fieldnames = <<>>
    /\ other_fieldnames = <<>>
    /\ loaded = [content |-> <<>>, column_order |-> <<>>]
    /\ sliced = NoTable
    /\ item = NoItem
    /\ processed = NoTable
    /\ input_list = NoTable
    /\ disk = NoFile
    /\ pc = "ready"
    /\ operation = "Operation"
    /\ skip_failing_rows = TRUE
    /\ skip_previous_results = TRUE
    /\ input_rows = <<>>
    /\ count = 0
    /\ results = <<>>
    /\ statistics = RunStatistics
    /\ input_row = NoRow
    /\ exc = NoExc
    /\ apply_calls = <<>>
    /\ input_file = [content |-> <<>>, column_order |-> <<>>]
    /\ output = <<>>
    /\ row_iter = RowIterator(<<>>)
    /\ input0 = <<>>
    /\ runs = 0
    /\ exit = NoExit
    /\ saves = 0
    /\ written = <<>>
    /\ run_rows = <<>>
    /\ disk_at_start = NoFile
    /\ previous = [exit |-> NoExit, written |-> <<>>]

notTableVars == <<input_file, operation, output, statistics, row_iter, input_row,
                  exc, input_rows, count, results, skip_failing_rows,
                  skip_previous_results, input0, runs, exit, saves, written,
                  apply_calls, run_rows, disk_at_start, previous>>

\* table.get_fieldnames(): returns a new list, assigns nothing
TblGetFieldnames ==
    /\ pc = "ready"
    /\ self_fieldnames' \in get_fieldnames(table.content, table.column_order)
    /\ pc' = "fieldnames"
    /\ UNCHANGED <<table, other, table0, other_fieldnames, loaded, disk>>
    /\ UNCHANGED <<sliced, item, processed, input_list>>
    /\ UNCHANGED notTableVars

\* table.concat(other)
TblConcat ==
    /\ pc = "ready"
    /\ self_fieldnames' \in get_fieldnames(table.content, table.column_order)
    /\ other_fieldnames' \in get_fieldnames(other.content, other.column_order)
    /\ table' = concat(table, other, self_fieldnames', other_fieldnames')
    /\ pc' = "concatenated"
    /\ UNCHANGED <<other, table0, loaded, disk>>
    /\ UNCHANGED <<sliced, item, processed, input_list>>
    /\ UNCHANGED notTableVars

\* CSVFile.save_to_path of the table, as constructed or after concat
TblSave ==
    /\ pc \in {"ready", "concatenated"}
    /\ disk' \in save(table.content, table.column_order)
    /\ pc' = "saved"
    /\ UNCHANGED <<table, other, table0, self_fieldnames, other_fieldnames, loaded>>
    /\ UNCHANGED <<sliced, item, processed, input_list>>
    /\ UNCHANGED notTableVars

\* CSVFile.init_from_path of the file saved
TblLoad ==
    /\ pc = "saved"
    /\ loaded' = init_from_path(disk)
    /\ pc' = "loaded"
    /\ UNCHANGED <<table, other, table0, self_fieldnames, other_fieldnames, disk>>
    /\ UNCHANGED <<sliced, item, processed, input_list>>
    /\ UNCHANGED notTableVars

\* table[start:stop]
TblSlice ==
    /\ pc = "ready"
    /\ \E start, stop \in 0..(MaxTableRows + 1) :
         /\ item' = [start |-> start, stop |-> stop]
         /\ sliced' = getitem(table, start, stop)
    /\ pc' = "sliced"
    /\ UNCHANGED <<table, other, table0, self_fieldnames, other_fieldnames, loaded, disk>>
    /\ UNCHANGED <<processed, input_list>>
    /\ UNCHANGED notTableVars

NextTable == TblGetFieldnames \/ TblConcat \/ TblSave \/ TblLoad \/ TblSlice

SpecTable == InitTable /\ [][NextTable]_vars

\* ------------------------------------------------------------------------
\* lico.lico: the legacy Task, its Operation and OperationIterator

\* class MissingInputColumn(RowProcessError) of lico.lico
MissingInputColumn(col) == [type |-> "MissingInputColumn", msg |-> "Missing column", col |-> col]

\* except RowProcessError in lico.lico: the class itself or its subclass
IsLegacyRowProcessError(e) == e.type \in {"RowProcessError", "MissingInputColumn"}

\* What apply(row) of an operation written for lico.lico can do; its
\* RowProcessError is the class of lico.lico
LegacyOutcomes(row) ==
    { o \in ApplyOutcomes(row) : o.exc.type # "MissingInputColumnError" }

\* The csv files at input_path: written with one of two headers, so that
\* every row read from them has every column of the header
LegacyHeaders == { <<"patient">>, <<"patient", "concatenated">> }

LegacyInputs ==
    { init_from_path(save_to_handle(t, h)) : t \in InputTables, h \in LegacyHeaders }

\* lico.lico.Operation.apply_safe(row): a row with a previous result is
\* returned as it is, else the row is updated in place with what apply
\* returns; a KeyError of apply becomes MissingInputColumn
legacy_apply_safe(op, row, outcome) ==
    IF has_previous_result(op, row)
    THEN [row |-> row, exc |-> NoExc, called |-> FALSE]
    ELSE IF outcome.exc = NoExc
    THEN [row |-> Merge(row, outcome.result), exc |-> NoExc, called |-> TRUE]
    ELSE IF outcome.exc.type = "KeyError"
    THEN [row |-> row, exc |-> MissingInputColumn(outcome.exc.col), called |-> TRUE]
    ELSE [row |-> row, exc |-> outcome.exc, called |-> TRUE]

\* OperationIterator.all_results, one row, with skip_failing_rows=True as
\* Operation.apply_to_table builds it: the updated row is put back into the
\* list and yielded, after a RowProcessError the row is yielded as it is,
\* any other exception is not caught
legacy_all_results(op, row, outcome) ==
    LET r == legacy_apply_safe(op, row, outcome)
    IN  IF r.exc # NoExc /\ IsLegacyRowProcessError(r.exc)
        THEN [r EXCEPT !.exc = NoExc]
        ELSE r

legacyFrame == <<input_file, operation, output, statistics, row_iter, input_row,
                 input_rows, skip_failing_rows, skip_previous_results, input0, runs,
                 exit, written, run_rows, disk_at_start, previous, table, other,
                 table0, self_fieldnames, other_fieldnames, loaded, sliced, item,
                 processed>>

\* Task.__init__ of lico.lico: the paths and the operation; input_file is
\* the table that the file at input_path loads as
InitLegacy ==
    /\ input_file \in LegacyInputs
    /\ operation \in Operations
    /\ disk \in {NoFile, PriorFile}
    /\ pc = "idle"
    /\ input_list = NoTable
    /\ count = 0
    /\ results = <<>>
    /\ exc = NoExc
    /\ saves = 0
    /\ apply_calls = <<>>
    /\ output = <<>>
    /\ statistics = RunStatistics
    /\ row_iter = RowIterator(<<>>)
    /\ input_row = NoRow
    /\ input_rows = <<>>
    /\ skip_failing_rows = TRUE
    /\ skip_previous_results = TRUE
    /\ input0 = input_file.content
    /\ runs = 0
    /\ exit = NoExit
    /\ written = <<>>
    /\ run_rows = <<>>
    /\ disk_at_start = NoFile
    /\ previous = [exit |-> NoExit, written |-> <<>>]
    /\ table = NoTable
    /\ other = NoTable
    /\ table0 = NoTable
    /\ self_fieldnames = <<>>
    /\ other_fieldnames = <<>>
    /\ loaded = NoTable
    /\ sliced = NoTable
    /\ item = NoItem
    /\ processed = NoTable

\* Task.all_results up to its loop: the output file is loaded if there is
\* one, else the input file
LegacyLoad ==
    /\ pc = "idle"
    /\ input_list' = IF disk.exists THEN init_from_path(disk) ELSE input_file
    /\ pc' = "running"
    /\ UNCHANGED <<disk, count, results, exc, saves, apply_calls>>
    /\ UNCHANGED legacyFrame

\* Task.all_results, one row of the loop: the row OperationIterator yields
\* is yielded to the consumer; an exception that is not a RowProcessError
\* reaches except Exception, where input_list is saved and the exception
\* raised again
LegacyRow ==
    /\ pc = "running"
    /\ count < Len(input_list.content)
    /\ LET row == input_list.content[count + 1]
       IN  \E outcome \in LegacyOutcomes(row) :
             LET r == legacy_all_results(operation, row, outcome)
             IN  /\ apply_calls' = IF r.called
                                   THEN Append(apply_calls, [row |-> row, outcome |-> outcome])
                                   ELSE apply_calls
                 /\ exc' = r.exc
                 /\ IF r.exc = NoExc
                    THEN /\ input_list' = [input_list EXCEPT !.content[count + 1] = r.row]
                         /\ results' = Append(results, r.row)
                         /\ pc' = "running"
                         /\ UNCHANGED <<disk, saves>>
                    ELSE /\ disk' \in save(input_list.content, input_list.column_order)
                         /\ saves' = saves + 1
                         /\ pc' = "raised"
                         /\ UNCHANGED <<input_list, results>>
    /\ count' = count + 1
    /\ UNCHANGED legacyFrame

\* The loop of Task.all_results ends: the generator returns, nothing
\* follows the try statement
LegacyExhausted ==
    /\ pc = "running"
    /\ count = Len(input_list.content)
    /\ pc' = "done"
    /\ UNCHANGED <<disk, input_list, count, results, exc, saves, apply_calls>>
    /\ UNCHANGED legacyFrame

\* The consumer stops after a row it got and closes the generator:
\* GeneratorExit is raised at the yield, which except Exception does not
\* catch
LegacyClose ==
    /\ pc = "running"
    /\ count >= 1
    /\ pc' = "closed"
    /\ UNCHANGED <<disk, input_list, count, results, exc, saves, apply_calls>>
    /\ UNCHANGED legacyFrame

NextLegacy == LegacyLoad \/ LegacyRow \/ LegacyExhausted \/ LegacyClose

SpecLegacy == InitLegacy /\ [][NextLegacy]_vars

\* ------------------------------------------------------------------------
\* Properties

DataOf(rows) == [i \in 1..Len(rows) |-> rows[i].data]

\* apply returned for this row in the calls given
Completed(calls, row) ==
    \E k \in 1..Len(calls) : calls[k].row.id = row.id /\ calls[k].outcome.exc = NoExc

\* The row as the engine emits it given the calls made: merged with what
\* apply returned for it, or as it was
Form(calls, row) ==
    IF Completed(calls, row)
    THEN Merge(row, calls[CHOOSE k \in 1..Len(calls) :
                            calls[k].row.id = row.id /\ calls[k].outcome.exc = NoExc].outcome.result)
    ELSE row

\* apply_safe raised RowProcessError in call k
RowErrorCall(calls, k) == IsRowProcessError(apply_safe(calls[k].outcome).exc)

\* apply_safe raised something that is not a RowProcessError in some call
FaultSeen(calls) ==
    \E k \in 1..Len(calls) :
        LET e == apply_safe(calls[k].outcome).exc
        IN  e # NoExc /\ ~IsRowProcessError(e)

FirstRunOver == runs = 1 /\ pc = "idle"

\* C1: after the first run() of a Task, returned or raised, the table
\* written to the output file has as many rows as the input and holds every
\* input row exactly once, merged with the result of apply if apply
\* returned for it and as it was otherwise
C1_NoRowLost ==
    FirstRunOver =>
        /\ disk \in save(written, input_file.column_order)
        /\ Len(disk.lines) = Len(input0)
        /\ Len(written) = Len(input0)
        /\ \A i \in 1..Len(input0) :
             \E j \in 1..Len(written) :
                 /\ written[j] = Form(apply_calls, input0[i])
                 /\ \A j2 \in 1..Len(written) : written[j2].id = i => j2 = j

C1_Witness ==
    /\ FirstRunOver
    /\ exit.how = "raised"
    /\ Len(input0) = 3
    /\ statistics.completed >= 1

\* C2: the table written by every run() of a Task, the second and later
\* ones included, covers every row of the input the Task was built with
C2_EveryRunCoversInput ==
    (runs >= 1 /\ pc = "idle") =>
        /\ Len(written) = Len(input0)
        /\ \A i \in 1..Len(input0) : \E j \in 1..Len(written) : written[j].id = i

\* C3: when apply fails with a fault at input row k, the table written is,
\* position by position, rows 1..k-1 as processed, then row k and the later
\* rows as they were in the input
C3_CrashLayout ==
    (FirstRunOver /\ exit.how = "raised") =>
        /\ Len(written) = Len(input0)
        /\ \A i \in 1..Len(input0) :
             written[i].data = IF i < input_row.id
                               THEN Form(apply_calls, input0[i]).data
                               ELSE input0[i].data

\* C4: a run() in which a fault left the engine raises that fault, after
\* having saved the recovery table exactly once; a run() that returned saw
\* no fault
C4_SavedThenReraised ==
    /\ (pc = "idle" /\ runs >= 1 /\ FaultSeen(apply_calls)) => exit.how = "raised"
    /\ exit.how = "raised" =>
         /\ FaultSeen(apply_calls)
         /\ exit.exc = Last(apply_calls).outcome.exc
         /\ saves = 1
         /\ written = output
         /\ Len(written) = Len(run_rows)
         /\ disk \in save(written, input_file.column_order)
    /\ exit.how = "returned" => ~FaultSeen(apply_calls)

C4_Witness ==
    /\ exit.how = "raised"
    /\ exit.exc = ValueError
    /\ Len(output) >= 2
    /\ disk_at_start = NoFile

\* C5: when the first run() returns, row i of the table written is the
\* engine's result for row i of the input, for every i
C5_OrderPreserved ==
    (FirstRunOver /\ exit.how = "returned") =>
        /\ Len(written) = Len(input0)
        /\ \A i \in 1..Len(input0) : written[i].data = Form(apply_calls, input0[i]).data

\* C6: the rows a run() processes are those loaded from the output file if
\* one exists when the run starts, and those of the input otherwise
C6_InputChosenByOutputFile ==
    runs >= 1 =>
        DataOf(run_rows) = IF disk_at_start.exists
                           THEN DataOf(init_from_path(disk_at_start).content)
                           ELSE DataOf(input0)

\* C7: a run() that returns after a run() that returned writes the same
\* table again, calls apply on no row that has a previous result and on
\* every row that has none
C7_ResumeConvergence ==
    (runs >= 2 /\ pc = "idle" /\ previous.exit.how = "returned" /\ exit.how = "returned") =>
        /\ DataOf(written) = DataOf(previous.written)
        /\ \A k \in 1..Len(apply_calls) : ~has_previous_result(operation, apply_calls[k].row)
        /\ \A j \in 1..Len(previous.written) :
             ~has_previous_result(operation, previous.written[j])
                => \E k \in 1..Len(apply_calls) : apply_calls[k].row = previous.written[j]

\* C8: a generator drained without exception has given one row per input
\* row, row i being input row i as it was or merged with what apply
\* returned for it
C8_OneRowPerInputInOrder ==
    pc = "done" =>
        /\ Len(results) = Len(input_rows)
        /\ \A i \in 1..Len(input_rows) : results[i] = Form(apply_calls, input_rows[i])

C8_Witness ==
    /\ pc = "done"
    /\ Len(input_rows) = 3
    /\ statistics.completed >= 1
    /\ statistics.skipped >= 1
    /\ statistics.failed >= 1

\* C9: with skip_failing_rows, a step in which apply_safe raises
\* RowProcessError yields the input row as it is, adds one to failed,
\* appends the error to errors, leaves completed and skipped alone and
\* leaves the generator ready for the next row
C9_FailedRowEmittedAndCounted ==
    [][ ( /\ skip_failing_rows
          /\ Len(apply_calls') = Len(apply_calls) + 1
          /\ RowErrorCall(apply_calls', Len(apply_calls')) )
        => ( /\ results' = Append(results, input_row)
             /\ statistics'.failed = statistics.failed + 1
             /\ statistics'.errors =
                   Append(statistics.errors, apply_safe(Last(apply_calls').outcome).exc)
             /\ statistics'.completed = statistics.completed
             /\ statistics'.skipped = statistics.skipped
             /\ exc' = NoExc
             /\ pc' = "running"
             /\ count' = count ) ]_vars

C9_Witness ==
    /\ skip_failing_rows
    /\ pc = "running"
    /\ statistics.failed = 2
    /\ Len(apply_calls) = 2
    /\ count < Len(input_rows)

\* C10: without skip_failing_rows, the first RowProcessError of apply_safe
\* leaves the generator at once: nothing is yielded for the row, the row is
\* the last one drawn and the last one given to apply, and no counter moved
\* for it
C10_ErrorPropagates ==
    (~skip_failing_rows /\ \E k \in 1..Len(apply_calls) : RowErrorCall(apply_calls, k)) =>
        /\ pc = "raised"
        /\ exc = apply_safe(Last(apply_calls).outcome).exc
        /\ \A k \in 1..Len(apply_calls) : RowErrorCall(apply_calls, k) => k = Len(apply_calls)
        /\ Last(apply_calls).row = input_rows[count]
        /\ Len(results) = count - 1
        /\ Total(statistics) = count - 1
        /\ statistics.failed = 0
        /\ statistics.errors = <<>>

C10_Witness ==
    /\ ~skip_failing_rows
    /\ pc = "raised"
    /\ IsRowProcessError(exc)
    /\ count = 2
    /\ Len(input_rows) = 3

\* The calls in which apply_safe raised RowProcessError
NumRowErrors(calls) == Cardinality({ k \in 1..Len(calls) : RowErrorCall(calls, k) })

\* C11: an exception of apply that is neither a RowProcessError nor a
\* KeyError leaves the generator at once, with skip_failing_rows and
\* without: it is the last call, nothing is yielded for the row or after
\* it, and it is neither counted nor recorded in the statistics
C11_FaultPropagates ==
    FaultSeen(apply_calls) =>
        /\ pc = "raised"
        /\ exc = Last(apply_calls).outcome.exc
        /\ exc # NoExc /\ ~IsRowProcessError(exc)
        /\ \A k \in 1..(Len(apply_calls) - 1) :
             LET e == apply_safe(apply_calls[k].outcome).exc
             IN  e = NoExc \/ IsRowProcessError(e)
        /\ Last(apply_calls).row = input_rows[count]
        /\ Len(results) = count - 1
        /\ Total(statistics) = count - 1
        /\ statistics.failed = NumRowErrors(apply_calls)
        /\ Len(statistics.errors) = statistics.failed
        /\ \A i \in 1..Len(statistics.errors) : statistics.errors[i] # exc

C11_Witness ==
    /\ pc = "raised"
    /\ exc = ValueError
    /\ skip_failing_rows
    /\ statistics.failed = 1
    /\ count = 2

HasPrevious(i) == has_previous_result(operation, input_rows[i])

\* C12: with skip_previous_results, apply is never called on a row that has
\* a previous result; such a row is yielded as it is and counted in
\* skipped; if every row has one, the drained generator gave the input
\* rows unchanged, completed is 0 and skipped is the number of rows
C12_PreviousResultsSkipped ==
    skip_previous_results =>
        /\ \A k \in 1..Len(apply_calls) :
             ~has_previous_result(operation, apply_calls[k].row)
        /\ \A i \in 1..Len(results) : HasPrevious(i) => results[i] = input_rows[i]
        /\ statistics.skipped = Cardinality({ i \in 1..Len(results) : HasPrevious(i) })
        /\ (pc = "done" /\ \A i \in 1..Len(input_rows) : HasPrevious(i)) =>
             /\ results = input_rows
             /\ statistics.completed = 0
             /\ statistics.skipped = Len(input_rows)

C12_Witness ==
    /\ skip_previous_results
    /\ pc = "done"
    /\ Len(input_rows) = 3
    /\ \A i \in 1..3 : HasPrevious(i)
    /\ apply_calls = <<>>

\* C13: a step in which apply returns yields the input row merged with the
\* partial row: every field of the partial row with the returned value,
\* every other field of the input row with its own value, no other field;
\* completed grows by one and nothing else in the statistics changes
C13_MergeOnSuccess ==
    [][ ( /\ Len(apply_calls') = Len(apply_calls) + 1
          /\ Last(apply_calls').outcome.exc = NoExc )
        => ( /\ Len(results') = Len(results) + 1
             /\ SubSeq(results', 1, Len(results)) = results
             /\ LET partial == Last(apply_calls').outcome.result
                    out == Last(results')
                IN  /\ out.id = input_row.id
                    /\ DOMAIN out.data = DOMAIN input_row.data \cup DOMAIN partial
                    /\ \A c \in DOMAIN partial : out.data[c] = partial[c]
                    /\ \A c \in DOMAIN input_row.data \ DOMAIN partial :
                         out.data[c] = input_row.data[c]
             /\ statistics' = [statistics EXCEPT !.completed = @ + 1] ) ]_vars

C13_Witness ==
    /\ pc = "running"
    /\ count >= 1
    /\ Len(results) = count
    /\ input_rows[count].data = ("patient" :> "p1") @@ ("concatenated" :> "p1d1")
    /\ results[count].data = ("patient" :> "p2") @@ ("concatenated" :> "p1d1")

\* apply raised KeyError, RowProcessError or a subclass of it in this call
RowLevelCall(call) ==
    call.outcome.exc.type \in {"KeyError", "RowProcessError", "MissingInputColumnError"}

\* The error the engine got for each row level failure of apply: with
\* skip_failing_rows they are statistics.errors, without it the exception
\* that left the generator
EngineSaw(i) ==
    IF skip_failing_rows THEN statistics.errors[i] ELSE exc

EngineSawAll ==
    LET n == Len(SelectSeq(apply_calls, RowLevelCall))
    IN  IF skip_failing_rows
        THEN Len(statistics.errors) = n
        ELSE (n > 0 => pc = "raised" /\ n = 1)

\* C14 as claimed: a KeyError of apply reaches the engine as a
\* MissingInputColumnError naming the column, a RowProcessError as it is
C14_KeyErrorBecomesMissingColumnError ==
    /\ EngineSawAll
    /\ \A i \in 1..Len(SelectSeq(apply_calls, RowLevelCall)) :
         LET raw == SelectSeq(apply_calls, RowLevelCall)[i].outcome.exc
         IN  IF raw.type = "KeyError"
             THEN /\ EngineSaw(i).type = "MissingInputColumnError"
                  /\ EngineSaw(i).col = raw.col
             ELSE EngineSaw(i) = raw

\* C14: a KeyError of apply reaches the engine as a RowProcessError of the
\* base class whose message names the column, a RowProcessError or a
\* subclass of it reaches it as it is, and the engine never gets a KeyError
C14_KeyErrorBecomesRowProcessError ==
    /\ EngineSawAll
    /\ \A i \in 1..Len(SelectSeq(apply_calls, RowLevelCall)) :
         LET raw == SelectSeq(apply_calls, RowLevelCall)[i].outcome.exc
         IN  /\ IsRowProcessError(EngineSaw(i))
             /\ IF raw.type = "KeyError"
                THEN EngineSaw(i) = RowProcessError("Missing column", raw.col)
                ELSE EngineSaw(i) = raw
    /\ exc.type # "KeyError"

C14_Witness ==
    /\ skip_failing_rows
    /\ Len(statistics.errors) = 2
    /\ apply_calls[1].outcome.exc = KeyError("patient")
    /\ statistics.errors[1] = RowProcessError("Missing column", "patient")
    /\ statistics.errors[2] = MissingInputColumnError("patient")

\* C15: a run() in which apply raised nothing but row level errors returns,
\* having saved the output; failed is the number of calls that failed and
\* errors holds one RowProcessError for each
C15_RowErrorsContained ==
    (pc = "idle" /\ runs >= 1 /\ ~FaultSeen(apply_calls)) =>
        /\ exit = [how |-> "returned", exc |-> NoExc]
        /\ saves = 1
        /\ written = output
        /\ disk \in save(written, input_file.column_order)
        /\ statistics.failed = NumRowErrors(apply_calls)
        /\ Len(statistics.errors) = statistics.failed
        /\ \A i \in 1..Len(statistics.errors) : IsRowProcessError(statistics.errors[i])

C15_Witness ==
    /\ pc = "idle"
    /\ runs = 1
    /\ exit.how = "returned"
    /\ statistics.failed = 2
    /\ statistics.completed = 1

\* C16: after run() the input table of the Task is what it was before
C16_InputNotMutated ==
    pc = "idle" => input_file.content = input0

\* The names of the sequence that are not in the set, in their order
RECURSIVE Without(_, _)
Without(names, S) ==
    IF names = <<>>
    THEN <<>>
    ELSE IF Last(names) \in S
         THEN Without(Front(names), S)
         ELSE Append(Without(Front(names), S), Last(names))

AddKey(names, dict, c) ==
    IF c \in DOMAIN dict /\ c \notin Range(names) THEN Append(names, c) ELSE names

\* The keys of the rows in the order they are met first, row by row and in
\* each row key by key
RECURSIVE Encountered(_)
Encountered(content) ==
    IF content = <<>>
    THEN <<>>
    ELSE LET before == Encountered(Front(content))
             dict == Last(content).data
         IN  AddKey(AddKey(AddKey(before, dict, KeyOrder[1]), dict, KeyOrder[2]),
                    dict, KeyOrder[3])

FirstEncountered(content, column_order) ==
    Without(Encountered(content), Range(column_order))

ExtraColumns(t) ==
    UNION { DOMAIN t.content[i].data : i \in 1..Len(t.content) } \ Range(t.column_order)

NoDuplicates(names) ==
    \A i, j \in 1..Len(names) : names[i] = names[j] => i = j

\* C17 as claimed: get_fieldnames returns the remembered order followed by
\* the extra columns in the order they are first met in the rows
C17_ExtraColumnsFirstEncountered ==
    pc = "fieldnames" =>
        self_fieldnames =
            table.column_order \o FirstEncountered(table.content, table.column_order)

\* C17: get_fieldnames returns the remembered order followed by the extra
\* columns, each once, in some order; with at most one extra column the
\* result is the one sequence there is
C17_ExtraColumnsInSomeOrder ==
    pc = "fieldnames" =>
        LET co == table.column_order
            n == Len(self_fieldnames)
        IN  /\ n = Len(co) + Cardinality(ExtraColumns(table))
            /\ SubSeq(self_fieldnames, 1, Len(co)) = co
            /\ { self_fieldnames[j] : j \in (Len(co) + 1)..n } = ExtraColumns(table)
            /\ Cardinality(ExtraColumns(table)) <= 1 =>
                 self_fieldnames = co \o FirstEncountered(table.content, co)

C17_Witness ==
    /\ pc = "fieldnames"
    /\ table.column_order = <<>>
    /\ Len(table.content) = 1
    /\ table.content[1].data = ("patient" :> "p1") @@ ("date" :> "d1")
    /\ self_fieldnames = <<"date", "patient">>

C19_ConcatOrderedUnion ==
    pc = "concatenated" =>
        /\ table.content = table0.content \o other.content
        /\ SubSeq(self_fieldnames, 1, Len(table0.column_order)) = table0.column_order
        /\ SubSeq(other_fieldnames, 1, Len(other.column_order)) = other.column_order
        /\ table.column_order =
             self_fieldnames \o Without(other_fieldnames, Range(self_fieldnames))
        /\ NoDuplicates(table.column_order)
        /\ Range(table.column_order) =
             Range(self_fieldnames) \cup Range(other_fieldnames)
        /\ ( /\ table0.column_order = <<"patient", "date">>
             /\ other.column_order = <<"patient", "concatenated">>
             /\ ExtraColumns(table0) = {}
             /\ ExtraColumns(other) = {} )
           => table.column_order = <<"patient", "date", "concatenated">>

C19_Witness ==
    /\ pc = "concatenated"
    /\ table0.column_order = <<"patient", "date">>
    /\ other.column_order = <<"patient", "concatenated">>
    /\ Len(table0.content) = 2
    /\ Len(other.content) = 1
    /\ table.column_order = <<"patient", "date", "concatenated">>

\* Every row has a value for every column, and there is a column
Dense(t) ==
    /\ t.column_order # <<>>
    /\ \A i \in 1..Len(t.content) : DOMAIN t.content[i].data = Range(t.column_order)

\* C20: a table in which every row has a value for every column, saved and
\* loaded, comes back with as many rows, the same column order and the same
\* values row by row
C20_SaveLoadRoundTrip ==
    (pc = "loaded" /\ Dense(table)) =>
        /\ Len(loaded.content) = Len(table.content)
        /\ loaded.column_order = table.column_order
        /\ \A i \in 1..Len(table.content) :
             loaded.content[i].data = table.content[i].data

\* C21: table[i:j] is a new Table whose rows are the rows of the table at
\* the 0-based places i..j-1, in their order, and whose column order is that
\* of the table; the rows and the column order of the table itself are what
\* they were
C21_SliceRowsAndColumns ==
    pc = "sliced" =>
        LET n == Len(table0.content)
            places == { k \in 0..(n - 1) : item.start <= k /\ k < item.stop }
        IN  /\ Len(sliced.content) = Cardinality(places)
            /\ \A k \in 1..Len(sliced.content) :
                 /\ item.start + k - 1 \in places
                 /\ sliced.content[k] = table0.content[item.start + k]
            /\ (item.start <= item.stop /\ item.stop <= n) =>
                 Len(sliced.content) = item.stop - item.start
            /\ sliced.column_order = table0.column_order
            /\ table = table0

C21_Witness ==
    /\ pc = "sliced"
    /\ Len(table.content) = 2
    /\ item = [start |-> 1, stop |-> 2]
    /\ sliced.content = <<table.content[2]>>
    /\ table.content[1] # table.content[2]
    /\ sliced.column_order = <<"patient", "date">>

\* The legacy Task is over: every row was taken, an exception left
\* all_results, or the consumer closed it
LegacyOver == pc \in {"done", "raised", "closed"}

\* C22: whenever consumption of all_results of the legacy Task has ended,
\* a file that holds every row of the input was written to output_path
C22_LegacyAlwaysWritesOutput ==
    LegacyOver =>
        /\ saves >= 1
        /\ disk \in save(input_list.content, input_list.column_order)
        /\ Len(disk.lines) = Len(input_list.content)

\* The rows emitted so far: to run(), which appends them to its output, or
\* to the consumer of the generator
Emitted == output \o results

\* The exception apply_safe raised in this call, NoExc if it returned
Raised(call) == apply_safe(call.outcome).exc

\* apply_safe raised in this call and the row of the call was emitted
FailedAndEmitted(call) ==
    /\ Raised(call) # NoExc
    /\ \E j \in 1..Len(Emitted) : Emitted[j].id = call.row.id

\* C23: in every state of a run of the engine and of run(), errors has as
\* many entries as failed counts; every row whose apply failed and that was
\* emitted was emitted as it was, and errors holds the exceptions of these
\* rows, one for each, in the order of the calls, and nothing else
C23_NoSilentFailure ==
    /\ Len(statistics.errors) = statistics.failed
    /\ LET rec == SelectSeq(apply_calls, FailedAndEmitted)
       IN  /\ statistics.errors = [k \in 1..Len(rec) |-> Raised(rec[k])]
           /\ \A k \in 1..Len(rec) :
                \E j \in 1..Len(Emitted) : Emitted[j] = rec[k].row

C23_Witness ==
    /\ pc = "idle"
    /\ exit.how = "raised"
    /\ statistics.failed = 2
    /\ statistics.errors = <<RowProcessError("Missing column", "patient"), ValueError>>
    /\ Len(output) = 3

\* C24: when run() ends, completed + skipped + failed is the number of rows
\* the run had as input, N; completed counts the calls of apply that
\* returned.  On return failed counts the calls that raised and skipped the
\* rows apply was not called on.  When run() raises, the statistics are
\* these at the save of the recovery table: failed counts the row errors
\* and one for the row in flight, whose fault is the last of errors, and
\* skipped counts the rows skipped before and every row not yet reached
C24_StatisticsAccounting ==
    (pc = "idle" /\ runs >= 1) =>
        LET N == Len(run_rows)
            reached == Len(row_iter.rows_returned)
            calls == Len(apply_calls)
            returned == Cardinality({ k \in 1..calls : apply_calls[k].outcome.exc = NoExc })
        IN  /\ runs = 1 => N = Len(input0)
            /\ Total(statistics) = N
            /\ Len(written) = N
            /\ statistics.completed = returned
            /\ exit.how = "returned" =>
                 /\ statistics.failed = NumRowErrors(apply_calls)
                 /\ statistics.skipped = N - calls
            /\ exit.how = "raised" =>
                 /\ statistics.failed = NumRowErrors(apply_calls) + 1
                 /\ Last(statistics.errors) = exit.exc
                 /\ Len(statistics.errors) = statistics.failed
                 /\ statistics.skipped = (reached - calls) + Len(row_iter.rows_left)
                 /\ reached + Len(row_iter.rows_left) = N

C24_Witness ==
    /\ pc = "idle"
    /\ exit.how = "raised"
    /\ Len(run_rows) = 3
    /\ Len(row_iter.rows_left) = 1
    /\ statistics.completed = 0
    /\ statistics.skipped = 2
    /\ statistics.failed = 1

\* The generator is suspended at a yield, not started, or has returned
Suspended == pc \in {"running", "done", "closed"}

\* What holds in every state of a generator: with k rows given to the
\* consumer, k rows are drawn while the generator is suspended and k + 1
\* while it works on a row or after it raised on one; the calls of apply
\* were made on rows drawn, in the order of the input, no row twice, and
\* not yet on the row being worked on; the rows given are the first k
LazyState ==
    /\ Suspended => count = Len(results)
    /\ pc \in {"inflight", "raised"} => count = Len(results) + 1
    /\ \A k \in 1..Len(apply_calls) :
         /\ apply_calls[k].row.id <= count
         /\ apply_calls[k].row = input_rows[apply_calls[k].row.id]
         /\ pc = "inflight" => apply_calls[k].row.id < count
         /\ \A k2 \in 1..Len(apply_calls) :
              apply_calls[k].row.id <= apply_calls[k2].row.id => k <= k2
    /\ \A j \in 1..Len(results) : results[j].id = j
    /\ count <= Len(input_rows)

\* What holds in every step: a row is drawn only when the work on the row
\* before is over, one row at a time and without calling apply; a call of
\* apply is on the one row drawn last; after the generator raised, returned
\* or was closed, no row is drawn, processed or given
LazyStep ==
    /\ count' # count =>
         /\ pc = "running"
         /\ count' = count + 1
         /\ input_row' = input_rows[count']
         /\ UNCHANGED <<apply_calls, results, statistics>>
    /\ apply_calls' # apply_calls =>
         /\ pc = "inflight"
         /\ count' = count
         /\ apply_calls' = Append(apply_calls, Last(apply_calls'))
         /\ Last(apply_calls').row = input_rows[count]
    /\ pc \in {"raised", "done", "closed"} =>
         UNCHANGED <<count, apply_calls, results, statistics, input_rows>>

\* C25: the engine is lazy and works on one row at a time: with k rows
\* given to the consumer exactly k rows are drawn (one more while the
\* consumer waits for row k + 1), apply is called on none beyond them and on
\* no row twice, the work on a row is over before the next is drawn, and
\* after an exception or a close the rows left are neither drawn nor
\* processed
C25_LazySequential == [](LazyState) /\ [][LazyStep]_vars

C25_Witness ==
    /\ pc = "closed"
    /\ Len(input_rows) = 3
    /\ count = 1
    /\ Len(results) = 1
    /\ Len(apply_calls) = 1

\* run() is under way: between the call of apply_to_each and the save
Underway == pc \in {"running", "inflight", "except"}

\* A row was drawn from the cursor and the engine has not emitted it
InFlight == pc \in {"inflight", "except"}

\* C26: at every step of run() the rows the RowIterator returned together
\* with the rows it has left are the input rows the run began with, each
\* once and as they were, len(rows_returned) + len(rows_left) = N; the
\* output has len(rows_returned) rows when no row is in flight and one less
\* while one is; at a fault the last of rows_returned is the row in flight
\* and no row of the output comes from it
C26_CursorInvariant ==
    Underway =>
        LET cursor == row_iter.rows_returned \o row_iter.rows_left
            N == Len(run_rows)
        IN  /\ runs = 1 => run_rows = input0
            /\ Len(row_iter.rows_returned) + Len(row_iter.rows_left) = N
            /\ \A i \in 1..N :
                 \E j \in 1..N :
                     /\ cursor[j] = run_rows[i]
                     /\ \A j2 \in 1..N : cursor[j2].id = i => j2 = j
            /\ ~InFlight => Len(output) = Len(row_iter.rows_returned)
            /\ InFlight =>
                 /\ Len(output) = Len(row_iter.rows_returned) - 1
                 /\ Last(row_iter.rows_returned) = input_row
                 /\ \A j \in 1..Len(output) : output[j].id # input_row.id
            /\ \A j \in 1..Len(output) :
                 \E k \in 1..Len(row_iter.rows_returned) :
                     row_iter.rows_returned[k].id = output[j].id

C26_Witness ==
    /\ pc = "except"
    /\ Len(run_rows) = 3
    /\ Len(row_iter.rows_returned) = 2
    /\ Len(row_iter.rows_left) = 1
    /\ Len(output) = 1
    /\ exc = ValueError

\* run() once called goes on: each statement of it is executed in its turn,
\* and each call of has_previous_result and apply returns or raises.  A
\* call of run() itself is up to the caller
RunGoesOn == WF_vars(RunNext \/ RunProcess \/ RunExcept \/ RunFinish)

\* The longest input of the runs followed to their end
MaxTerminationRows == 2

InitTermination == Init /\ Len(input_file.content) <= MaxTerminationRows

SpecTermination == InitTermination /\ [][Next]_vars /\ RunGoesOn

\* While run() is under way it has not written the output file; once it is
\* over it has written it once, and it returned or raised
WrittenOnceAtExit ==
    /\ pc # "idle" => (saves = 0 /\ exit = NoExit)
    /\ (pc = "idle" /\ runs >= 1) =>
         /\ saves = 1
         /\ exit.how \in {"returned", "raised"}
         /\ exit.how = "raised" <=> exit.exc # NoExc
         /\ disk \in save(written, input_file.column_order)

\* The step that writes the output file is the step in which run() returns
\* or raises, and run() is left in no other step
SaveIsLastEffect ==
    /\ (saves' # saves /\ saves' # 0) => (pc # "idle" /\ pc' = "idle" /\ saves' = saves + 1)
    /\ (pc # "idle" /\ pc' = "idle") => saves' = saves + 1
    /\ disk' # disk => (pc # "idle" /\ pc' = "idle")

\* C27: every run() over a finite input ends, returning the statistics or
\* raising; on both ways out the output file is written exactly once, in
\* the last step before the return or the raise
C27_RunTerminates ==
    /\ (pc # "idle") ~> (pc = "idle")
    /\ [](WrittenOnceAtExit)
    /\ [][SaveIsLastEffect]_vars

C27_Witness ==
    /\ pc = "idle"
    /\ runs = 1
    /\ exit.how = "returned"
    /\ saves = 1
    /\ Len(written) = 2
    /\ statistics.completed = 1
    /\ statistics.failed = 1
    /\ disk_at_start = NoFile
    /\ disk.exists

\* C28: process leaves the table it is given as it was, rows, fields and
\* column order, during the call and after it; what it returns has as many
\* rows and the column order of the table; row i of it is row i of the
\* table merged with what apply returned for it, or row i as it is, and a
\* merged row differs from the row of the table, which is still what it was
C28_ProcessLeavesInput ==
    /\ table = table0
    /\ input_rows = table0.content
    /\ pc = "returned" =>
         /\ Len(processed.content) = Len(table0.content)
         /\ processed.column_order = table0.column_order
         /\ \A i \in 1..Len(table0.content) :
              /\ processed.content[i] = Form(apply_calls, table0.content[i])
              /\ processed.content[i] # table0.content[i] =>
                   /\ Completed(apply_calls, table0.content[i])
                   /\ table.content[i] = table0.content[i]

C28_Witness ==
    /\ pc = "returned"
    /\ Len(table.content) = 3
    /\ table.column_order = <<"patient">>
    /\ statistics.completed >= 2
    /\ processed.content[1] # table.content[1]
    /\ processed.content[3] = table.content[3]

====
